---- MODULE Spec2Model ----
(***************************************************************************)
(* Model of the speech-quality glue code of Publication_Spectral_Subtraction *)
(*                                                                         *)
(*   src/python_modules/dnsmos_wrapper/__init__.py   the packaged wrapper   *)
(*   src/install_python_deps.py                      the installer, and the *)
(*                                                   wrapper it generates   *)
(*                                                                         *)
(* Two processes are modelled.  Spec is a host process that imports one     *)
(* module named dnsmos_wrapper (the package, or the generated file) and     *)
(* calls dnsmos() on it.  InstallSpec is one run of the installer's main(). *)
(* External collaborators (soundfile, librosa, tempfile, ComputeScore,      *)
(* DNSMOS, pip, conda, the filesystem) are the environment: each call into  *)
(* them either returns or raises, chosen with \E.                           *)
(***************************************************************************)
EXTENDS Integers, Sequences, FiniteSets, TLC

VARIABLES
    \* ---- the host process that scores audio
    resolved,       \* the file the name dnsmos_wrapper resolves to on sys.path
    module,         \* which dnsmos_wrapper module is in sys.modules
    hasDNSMOS,      \* generated wrapper: the global DNSMOS is not None
    instance,       \* the global scorer holder (dnsmos_wrapper / _dnsmos_instance)
    built,          \* scorer objects constructed so far in this process
    attempts,       \* constructor invocations so far (failed ones included)
    failedBuild,    \* some constructor invocation has raised
    loads,          \* import statements executed
    calls,          \* dnsmos() calls made
    used,           \* the scorer objects that dnsmos() calls have invoked
    tmpFiles,       \* temporary .wav files present on disk
    tmpMade,        \* temporary files created so far (names are 1, 2, ...)
    last,           \* what the last import or call did and gave back
    \* ---- one run of the installer
    ipc,            \* position of main()
    args,           \* the parsed command line
    host,           \* the machine the installer runs on
    installs,       \* install_package calls made, in order
    log,            \* print_status lines, in order
    wrapperWritten, \* python_modules/dnsmos_wrapper.py has been written
    exitCode        \* process exit status (NoExit while running)

scoreVars == <<resolved, module, hasDNSMOS, instance, built, attempts, failedBuild,
               loads, calls, used, tmpFiles, tmpMade, last>>
installVars == <<ipc, args, host, installs, log, wrapperWritten, exitCode>>
vars == <<resolved, module, hasDNSMOS, instance, built, attempts, failedBuild, loads,
          calls, used, tmpFiles, tmpMade, last,
          ipc, args, host, installs, log, wrapperWritten, exitCode>>

(***************************************************************************)
(* Bounds of the model                                                     *)
(***************************************************************************)
MaxLoads == 2
MaxCalls == 2

(***************************************************************************)
(* Program constants                                                       *)
(***************************************************************************)
TargetRate == 16000
None == 0

(***************************************************************************)
(* Values                                                                  *)
(***************************************************************************)
ScoreKeys == {"SIG", "BAK", "OVRL"}

\* A number with the type python holds it in; val is in tenths (35 is 3.5).
Num(t, v) == [type |-> t, val |-> v]

\* An audio buffer: a numpy array of shape (frames,) when ndim = 1 and
\* (frames, channels) when ndim = 2, with the rate its samples run at.
Buffer(nd, ch, fr, r) == [ndim |-> nd, channels |-> ch, frames |-> fr, rate |-> r]

\* What a call or an import did.  outcome is "return" (a value), "None" (the
\* absence signal) or "raise" (an exception reached the caller).
Result(out, exc, val, ops, files, handed, got, at) ==
    [outcome |-> out, exc |-> exc, value |-> val, ops |-> ops, files |-> files,
     handed |-> handed, got |-> got, raisedAt |-> at]

Raised(exc, ops, files, handed, got, at) ==
    Result("raise", exc, << >>, ops, files, handed, got, at)

(***************************************************************************)
(* The libraries the wrapper calls, by what they do to a buffer            *)
(***************************************************************************)
\* np.mean(audio, axis=1): one value per frame.
np_mean(audio) == [audio EXCEPT !.ndim = 1, !.channels = 1]

CeilDiv(a, b) == (a + b - 1) \div b

\* librosa.resample(y, orig_sr, target_sr): ceil(n * target_sr / orig_sr)
\* samples, running at rate(y) * target_sr / orig_sr.
librosa_resample(y, orig_sr, target_sr) ==
    [y EXCEPT !.frames = CeilDiv(y.frames * target_sr, orig_sr),
              !.rate = (y.rate * target_sr) \div orig_sr]

\* float(x)
float(x) == Num("float", x.val)

(***************************************************************************)
(* dnsmos_wrapper/__init__.py                                              *)
(***************************************************************************)
\* Lines 70-74: the three P.835 scores out of the scorer's dictionary.
ExtractSwapped(clip_dict) ==
    [k \in ScoreKeys |->
        float(clip_dict[IF k = "SIG" THEN "BAK" ELSE IF k = "BAK" THEN "SIG" ELSE k])]

ExtractScores(clip_dict) == [k \in ScoreKeys |-> float(clip_dict[k])]

\* Lines 53-59 (and 94-100): mono first, then 16 kHz.
NormalizeNoResample(audio, sr) ==
    LET mono == IF audio.ndim > 1 THEN np_mean(audio) ELSE audio
    IN [buf |-> mono,
        ops |-> IF audio.ndim > 1 THEN <<"mean">> ELSE << >>,
        resampled |-> FALSE]

Normalize(audio, sr) ==
    LET mono == IF audio.ndim > 1 THEN np_mean(audio) ELSE audio
        ops1 == IF audio.ndim > 1 THEN <<"mean">> ELSE << >>
    IN IF sr # TargetRate
       THEN [buf |-> librosa_resample(mono, sr, TargetRate),
             ops |-> ops1 \o <<"resample">>,
             resampled |-> TRUE]
       ELSE [buf |-> mono, ops |-> ops1, resampled |-> FALSE]

\* Lines 63-76 (and 104-117): the with-block and the extraction.  tmp is the
\* name NamedTemporaryFile(delete=False) gives; env says which library call
\* raises (fault) and what the scorer returns (clip_dict).
ScoreNormalized(n, pre, env, tmp) ==
    LET ops0 == pre \o n.ops
        handed == <<[file |-> tmp, written |-> n.buf, samplerate |-> TargetRate,
                     rate |-> TargetRate, flag |-> FALSE]>>
    IN IF n.resampled /\ env.fault = "resample"
       THEN Raised("Exception", ops0, {}, << >>, << >>, "resample")
       ELSE IF env.fault = "tmpfile"
       THEN Raised("OSError", ops0 \o <<"tmpfile">>, {}, << >>, << >>, "tmpfile")
       ELSE IF env.fault = "write"
       THEN Raised("Exception", ops0 \o <<"tmpfile", "write">>, {tmp},
                   << >>, << >>, "write")
       ELSE IF env.fault = "scorer"
       THEN Raised("Exception", ops0 \o <<"tmpfile", "write", "score">>, {tmp},
                   handed, << >>, "score")
       ELSE IF ~(ScoreKeys \subseteq DOMAIN env.clip_dict)
       THEN Raised("KeyError",
                   ops0 \o <<"tmpfile", "write", "score", "unlink", "extract">>,
                   {}, handed, <<env.clip_dict>>, "extract")
       ELSE Result("return", "", ExtractScores(env.clip_dict),
                   ops0 \o <<"tmpfile", "write", "score", "unlink", "extract">>,
                   {}, handed, <<env.clip_dict>>, "")

\* Lines 78-80 (and 119-121): except Exception: print and return None.
Propagate(r) == r

ExceptException(r) ==
    IF r.outcome = "raise"
    THEN [r EXCEPT !.outcome = "None", !.ops = r.ops \o <<"print">>]
    ELSE r

\* Lines 39-80.  The native rate of the decoded file is the rate used.
calculate_dnsmos(input, env, tmp) ==
    ExceptException(
        IF env.fault = "decode"
        THEN Raised("Exception", <<"read">>, {}, << >>, << >>, "decode")
        ELSE ScoreNormalized(
                Normalize(Buffer(input.ndim, input.channels, input.frames,
                                 input.fileRate), input.fileRate),
                <<"read">>, env, tmp))

\* Lines 82-121.  The supplied sample_rate is the rate used.
calculate_dnsmos_from_array(input, env, tmp) ==
    ExceptException(
        ScoreNormalized(
            Normalize(Buffer(input.ndim, input.channels, input.frames,
                             input.sample_rate), input.sample_rate),
            << >>, env, tmp))

\* Lines 126-140.
dnsmos(input, env, tmp) ==
    IF input.kind = "path"
    THEN calculate_dnsmos(input, env, tmp)
    ELSE calculate_dnsmos_from_array(input, env, tmp)

\* Lines 27-37: DNSMOSWrapper.__init__ builds one ComputeScore from the two
\* model paths; ok says whether ComputeScore(...) returns.  The object is
\* named by its ordinal among the objects built in this process.
DNSMOSWrapper_init(ok, nBuilt) ==
    IF ok THEN [raised |-> FALSE, obj |-> nBuilt + 1]
          ELSE [raised |-> TRUE, obj |-> None]

(***************************************************************************)
(* The wrapper install_python_deps.py generates (lines 107-225)            *)
(***************************************************************************)
\* Lines 140-146: __init__ raises ImportError when the global DNSMOS is None,
\* else builds DNSMOS(); ok says whether DNSMOS() returns.
GeneratedWrapper_init(available, ok, nBuilt) ==
    IF available /\ ok THEN [raised |-> FALSE, obj |-> nBuilt + 1]
                       ELSE [raised |-> TRUE, obj |-> None]

\* Line 202: construct only while the global holder is None.
AlwaysConstruct(holder) == TRUE

NeedsConstruction(holder) == holder = None

\* Lines 203-206: a failed construction is re-raised as ImportError.
ConstructionSwallowed(ops) ==
    Result("None", "", << >>, ops, {}, << >>, << >>, "construct")

ConstructionFailed(ops) ==
    Raised("ImportError", ops, {}, << >>, << >>, "construct")

\* Lines 189-208.  holder is _dnsmos_instance.  Line 208 looks dnsmos up on
\* the instance: the attribute set at line 145 (the DNSMOS object) hides the
\* method of lines 158-184, so the call goes to the external object, which
\* returns a value (env.ret) or raises (env.fault = "scorer"); either way
\* nothing in the generated file catches it.
generated_dnsmos(holder, available, env, nBuilt) ==
    LET need == NeedsConstruction(holder)
        c == GeneratedWrapper_init(available, env.ctorOk, nBuilt)
        ops0 == IF need THEN <<"construct">> ELSE << >>
        obj == IF need THEN c.obj ELSE holder
    IN IF need /\ c.raised
       THEN [res |-> ConstructionFailed(ops0), holder |-> holder,
             attempted |-> 1, builtNow |-> 0, invoked |-> {}]
       ELSE [res |-> IF env.fault = "scorer"
                     THEN Raised("Exception", ops0 \o <<"score">>, {}, << >>,
                                 << >>, "score")
                     ELSE Result("return", "", [k \in {"score"} |-> env.ret],
                                 ops0 \o <<"score">>, {}, << >>, << >>, ""),
             holder |-> obj,
             attempted |-> IF need THEN 1 ELSE 0,
             builtNow |-> IF need THEN 1 ELSE 0,
             invoked |-> {obj}]

(***************************************************************************)
(* Inputs and environments                                                 *)
(***************************************************************************)
Rates == {8000, 16000, 48000}

PathInputs ==
    {[kind |-> "path", ndim |-> sh[1], channels |-> sh[2], frames |-> 3,
      fileRate |-> fr, sample_rate |-> sr] :
        sh \in {<<1, 1>>, <<2, 2>>}, fr \in Rates, sr \in {8000, 16000}}

ArrayInputs ==
    {[kind |-> "array", ndim |-> sh[1], channels |-> sh[2], frames |-> 2,
      fileRate |-> 0, sample_rate |-> sr] :
        sh \in {<<1, 1>>, <<2, 1>>, <<2, 2>>}, sr \in Rates}

Inputs == PathInputs \cup ArrayInputs

NoInput == [kind |-> "none", ndim |-> 0, channels |-> 0, frames |-> 0,
            fileRate |-> 0, sample_rate |-> 0]

AllKeys == ScoreKeys \cup {"P808_MOS", "OVRL_raw"}

ValsA == [SIG |-> 35, BAK |-> 40, OVRL |-> 38, P808_MOS |-> 31, OVRL_raw |-> 36]
ValsB == [SIG |-> 12, BAK |-> 47, OVRL |-> 20, P808_MOS |-> 25, OVRL_raw |-> 19]

KeySets == {AllKeys, ScoreKeys, {"SIG", "BAK"}, {"OVRL", "P808_MOS"}, {}}

\* What ComputeScore.__call__ may return.
ClipDicts ==
    {[k \in ks |-> Num(tv[1], tv[2][k])] :
        ks \in KeySets, tv \in {<<"float32", ValsA>>, <<"float64", ValsB>>}}

FullDict == [k \in AllKeys |-> Num("float32", ValsA[k])]

\* One library call raises (fault), or none does and the scorer returns.
Envs ==
    {[fault |-> f, clip_dict |-> FullDict] :
        f \in {"decode", "resample", "tmpfile", "write", "scorer"}}
    \cup {[fault |-> "none", clip_dict |-> d] : d \in ClipDicts}

GenEnvs ==
    {[ctorOk |-> ok, fault |-> f, ret |-> r] :
        ok \in BOOLEAN, f \in {"none", "scorer"},
        r \in {Num("float", 35), Num("float32", 12)}}

NoResult == Result("none", "", << >>, << >>, {}, << >>, << >>, "")

(***************************************************************************)
(* The host process                                                        *)
(***************************************************************************)
ScoreInit ==
    /\ resolved = "none"
    /\ module = "unloaded"
    /\ hasDNSMOS = FALSE
    /\ instance = None
    /\ built = 0
    /\ attempts = 0
    /\ failedBuild = FALSE
    /\ loads = 0
    /\ calls = 0
    /\ used = {}
    /\ tmpFiles = {}
    /\ tmpMade = 0
    /\ last = [op |-> "none", input |-> NoInput, res |-> NoResult]

\* import dnsmos_wrapper, resolved to the package: lines 14-25 import
\* ComputeScore (ImportError re-raised), line 124 constructs the global
\* instance.  A module whose body raises is not kept in sys.modules, so a
\* later import statement runs the body again.  The package directory and the
\* generated file carry the same module name: a process finds one of them.
ImportPackage ==
    /\ module = "unloaded"
    /\ resolved \in {"none", "pkg"}
    /\ resolved' = "pkg"
    /\ loads < MaxLoads
    /\ loads' = loads + 1
    /\ \E importOk \in BOOLEAN, ctorOk \in BOOLEAN :
         LET c == DNSMOSWrapper_init(ctorOk, built)
         IN IF ~importOk
            THEN /\ last' = [op |-> "import", input |-> NoInput,
                             res |-> Raised("ImportError", <<"import">>, {},
                                            << >>, << >>, "import")]
                 /\ UNCHANGED <<module, instance, built, attempts, failedBuild>>
            ELSE IF c.raised
            THEN /\ last' = [op |-> "import", input |-> NoInput,
                             res |-> Raised("Exception", <<"import", "construct">>,
                                            {}, << >>, << >>, "construct")]
                 /\ attempts' = attempts + 1
                 /\ failedBuild' = TRUE
                 /\ UNCHANGED <<module, instance, built>>
            ELSE /\ last' = [op |-> "import", input |-> NoInput,
                             res |-> Result("return", "", << >>,
                                            <<"import", "construct">>, {},
                                            << >>, << >>, "")]
                 /\ module' = "pkg"
                 /\ instance' = c.obj
                 /\ built' = built + 1
                 /\ attempts' = attempts + 1
                 /\ UNCHANGED failedBuild
    /\ UNCHANGED <<hasDNSMOS, calls, used, tmpFiles, tmpMade>>
    /\ UNCHANGED installVars

\* dnsmos(audio_path_or_array, sample_rate) of the package.
CallPackage ==
    /\ module = "pkg"
    /\ calls < MaxCalls
    /\ calls' = calls + 1
    /\ \E input \in Inputs, env \in Envs :
         LET tmp == tmpMade + 1
             r == dnsmos(input, env, tmp)
             made == \E i \in DOMAIN r.ops : r.ops[i] = "tmpfile"
             created == made /\ r.raisedAt # "tmpfile"
         IN /\ last' = [op |-> "call", input |-> input, res |-> r]
            /\ tmpMade' = IF created THEN tmp ELSE tmpMade
            /\ tmpFiles' = tmpFiles \cup r.files
            /\ used' = IF r.handed # << >> THEN used \cup {instance} ELSE used
    /\ UNCHANGED <<resolved, module, hasDNSMOS, instance, built, attempts,
                   failedBuild, loads>>
    /\ UNCHANGED installVars

\* import dnsmos_wrapper, resolved to the generated file: lines 131-135 set
\* DNSMOS to the class or to None, line 187 sets the holder to None.
ImportGeneratedEager ==
    /\ module = "unloaded"
    /\ resolved \in {"none", "gen"}
    /\ resolved' = "gen"
    /\ loads < MaxLoads
    /\ loads' = loads + 1
    /\ module' = "gen"
    /\ hasDNSMOS' = TRUE
    /\ instance' = built + 1
    /\ built' = built + 1
    /\ attempts' = attempts + 1
    /\ last' = [op |-> "import", input |-> NoInput,
                res |-> Result("return", "", << >>, <<"import", "construct">>,
                               {}, << >>, << >>, "")]
    /\ UNCHANGED <<failedBuild, calls, used, tmpFiles, tmpMade>>
    /\ UNCHANGED installVars

ImportGenerated ==
    /\ module = "unloaded"
    /\ resolved \in {"none", "gen"}
    /\ resolved' = "gen"
    /\ loads < MaxLoads
    /\ loads' = loads + 1
    /\ \E depsOk \in BOOLEAN, available \in BOOLEAN :
         IF ~depsOk
         THEN \* lines 121-122: numpy or onnxruntime is missing
              /\ last' = [op |-> "import", input |-> NoInput,
                          res |-> Raised("ImportError", <<"import">>, {},
                                         << >>, << >>, "import")]
              /\ UNCHANGED <<module, hasDNSMOS, instance>>
         ELSE /\ module' = "gen"
              /\ hasDNSMOS' = available
              /\ instance' = None
              /\ last' = [op |-> "import", input |-> NoInput,
                          res |-> Result("return", "", << >>, <<"import">>, {},
                                         << >>, << >>, "")]
    /\ UNCHANGED <<built, attempts, failedBuild, calls, used, tmpFiles, tmpMade>>
    /\ UNCHANGED installVars

\* dnsmos(audio, sample_rate) of the generated file.
CallGenerated ==
    /\ module = "gen"
    /\ calls < MaxCalls
    /\ calls' = calls + 1
    /\ \E input \in ArrayInputs, env \in GenEnvs :
         LET g == generated_dnsmos(instance, hasDNSMOS, env, built)
         IN /\ last' = [op |-> "call", input |-> input, res |-> g.res]
            /\ instance' = g.holder
            /\ built' = built + g.builtNow
            /\ attempts' = attempts + g.attempted
            /\ failedBuild' = (failedBuild \/ (g.attempted = 1 /\ g.builtNow = 0))
            /\ used' = used \cup g.invoked
    /\ UNCHANGED <<resolved, module, hasDNSMOS, loads, tmpFiles, tmpMade>>
    /\ UNCHANGED installVars

(***************************************************************************)
(* install_python_deps.py                                                  *)
(***************************************************************************)
\* Tuple comparison, as python compares sys.version_info with (3, 7).
TupleLess(v, w) == v[1] < w[1] \/ (v[1] = w[1] /\ v[2] < w[2])

\* Lines 37-42: TRUE when the version is accepted.
check_python_version(version) == ~TupleLess(version, <<3, 7>>)

\* Lines 44-51: pip --version ran and succeeded.
check_pip(h) == h.pip

\* Lines 53-60: conda --version ran and succeeded.
check_conda(h) == h.conda

\* Lines 251-260: the manager the mode flag selects is the one checked.
ManagerPipOnly(use_conda, h) == check_pip(h)

ManagerPresent(use_conda, h) ==
    IF use_conda THEN check_conda(h) ELSE check_pip(h)

\* Lines 64-70: the command line of one installation.
install_cmd(package, use_conda, force) ==
    IF use_conda
    THEN <<"conda", "install", "-y", "-c", "conda-forge", package>>
    ELSE <<"python", "-m", "pip", "install">>
         \o (IF force THEN <<"--force-reinstall">> ELSE << >>)
         \o <<package>>

\* Lines 62-83: ok says whether the subprocess exits with status 0; a
\* CalledProcessError is caught and reported, and the function returns.
install_package_uncaught(package, use_conda, force, verbose, ok) ==
    [package |-> package,
     cmd |-> install_cmd(package, use_conda, force),
     ok |-> ok,
     raised |-> ~ok,
     log |-> (IF verbose THEN <<<<"INFO", "Running">>>> ELSE << >>)
             \o (IF ok THEN <<<<"SUCCESS", "Successfully installed">>>> ELSE << >>)]

install_package(package, use_conda, force, verbose, ok) ==
    [package |-> package,
     cmd |-> install_cmd(package, use_conda, force),
     ok |-> ok,
     raised |-> FALSE,
     log |-> (IF verbose THEN <<<<"INFO", "Running">>>> ELSE << >>)
             \o <<IF ok THEN <<"SUCCESS", "Successfully installed">>
                        ELSE <<"ERROR", "Failed to install">>>>]

\* Lines 85-103.
check_dnsmos_submodule_dir_only(h) ==
    [ok |-> h.dir,
     log |-> <<<<"INFO", "Checking DNSMOS submodule...">>,
               IF h.dir THEN <<"SUCCESS", "DNSMOS submodule is properly set up">>
                        ELSE <<"ERROR", "DNSMOS submodule not found">>>>]

check_dnsmos_submodule(h) ==
    IF ~h.dir
    THEN [ok |-> FALSE,
          log |-> <<<<"INFO", "Checking DNSMOS submodule...">>,
                    <<"ERROR", "DNSMOS submodule not found">>>>]
    ELSE IF ~h.git
    THEN [ok |-> FALSE,
          log |-> <<<<"INFO", "Checking DNSMOS submodule...">>,
                    <<"WARNING", "DNSMOS directory exists but is not a git submodule">>,
                    <<"INFO", "Please run: git submodule update --init --recursive">>>>]
    ELSE [ok |-> TRUE,
          log |-> <<<<"INFO", "Checking DNSMOS submodule...">>,
                    <<"SUCCESS", "DNSMOS submodule is properly set up">>>>]

\* Lines 263-270 and 273-276.
core_packages == <<"numpy", "scipy", "librosa", "soundfile", "pandas", "tqdm">>

metrics_packages == <<"pypesq", "onnxruntime">>

\* Lines 290-294.
CompletedLines ==
    <<<<"SUCCESS", "Installation completed!">>,
      <<"INFO", "You can now use the HADatasets metrics module.">>,
      <<"INFO", "Testing installation...">>>>

Versions == {<<2, 7>>, <<3, 6>>, <<3, 7>>, <<3, 11>>}

\* A .git entry lies inside the submodule directory.
Hosts ==
    {h \in [version : Versions, pip : BOOLEAN, conda : BOOLEAN,
            dir : BOOLEAN, git : BOOLEAN] : h.git => h.dir}

Args == [conda : BOOLEAN, force : BOOLEAN, verbose : BOOLEAN]

InstallInit ==
    /\ ipc = "idle"
    /\ args = [conda |-> FALSE, force |-> FALSE, verbose |-> FALSE]
    /\ host = [version |-> <<3, 7>>, pip |-> FALSE, conda |-> FALSE,
               dir |-> FALSE, git |-> FALSE]
    /\ installs = << >>
    /\ log = << >>
    /\ wrapperWritten = FALSE
    /\ exitCode = << >>

\* Lines 235-245: the command line is parsed on some host.
Launch ==
    /\ ipc = "idle"
    /\ \E a \in Args, h \in Hosts : args' = a /\ host' = h
    /\ log' = <<<<"INFO", "HADatasets Python Dependencies Installation">>,
                <<"INFO", "=====">>>>
    /\ ipc' = "version"
    /\ UNCHANGED <<installs, wrapperWritten, exitCode>>
    /\ UNCHANGED scoreVars

\* Line 248.
CheckVersion ==
    /\ ipc = "version"
    /\ IF check_python_version(host.version)
       THEN /\ log' = Append(log, <<"SUCCESS", "Python detected">>)
            /\ ipc' = "manager"
            /\ UNCHANGED exitCode
       ELSE /\ log' = Append(log, <<"ERROR", "Python 3.7+ is required">>)
            /\ ipc' = "exited"
            /\ exitCode' = <<1>>
    /\ UNCHANGED <<args, host, installs, wrapperWritten>>
    /\ UNCHANGED scoreVars

\* Lines 250-260, and line 278.
CheckManager ==
    /\ ipc = "manager"
    /\ IF ManagerPresent(args.conda, host)
       THEN /\ log' = log \o <<<<"INFO", IF args.conda
                                         THEN "Using conda for package installation"
                                         ELSE "Using pip for package installation">>,
                               <<"INFO", "Installing core dependencies...">>>>
            /\ ipc' = "core"
            /\ UNCHANGED exitCode
       ELSE /\ log' = Append(log, <<"ERROR", IF args.conda THEN "Conda not found"
                                                          ELSE "Pip not found">>)
            /\ ipc' = "exited"
            /\ exitCode' = <<1>>
    /\ UNCHANGED <<args, host, installs, wrapperWritten>>
    /\ UNCHANGED scoreVars

\* One iteration of a for loop over list `packages`, the i-th package of it;
\* an exception leaving install_package ends the process with status 1.
InstallOne(packages, i, after, afterLog) ==
    \E ok \in BOOLEAN :
        LET r == install_package(packages[i], args.conda, args.force,
                                 args.verbose, ok)
        IN /\ installs' = Append(installs, [package |-> r.package,
                                            cmd |-> r.cmd, ok |-> r.ok])
           /\ IF r.raised
              THEN /\ log' = log \o r.log
                   /\ ipc' = "exited"
                   /\ exitCode' = <<1>>
              ELSE /\ log' = log \o r.log
                               \o (IF i = Len(packages) THEN afterLog ELSE << >>)
                   /\ ipc' = IF i = Len(packages) THEN after ELSE ipc
                   /\ UNCHANGED exitCode

\* Lines 279-280, and line 282 after the last one.
InstallCore ==
    /\ ipc = "core"
    /\ InstallOne(core_packages, Len(installs) + 1, "metrics",
                  <<<<"INFO", "Installing metrics dependencies...">>>>)
    /\ UNCHANGED <<args, host, wrapperWritten>>
    /\ UNCHANGED scoreVars

\* Lines 283-284.
InstallMetrics ==
    /\ ipc = "metrics"
    /\ InstallOne(metrics_packages, Len(installs) - Len(core_packages) + 1,
                  "submodule", << >>)
    /\ UNCHANGED <<args, host, wrapperWritten>>
    /\ UNCHANGED scoreVars

\* Line 287, and lines 290-294 when the wrapper is not to be written.
CheckSubmodule ==
    /\ ipc = "submodule"
    /\ LET c == check_dnsmos_submodule(host)
       IN IF c.ok
          THEN /\ log' = log \o c.log
               /\ ipc' = "wrapper"
          ELSE /\ log' = log \o c.log \o CompletedLines
               /\ ipc' = "test"
    /\ UNCHANGED <<args, host, installs, wrapperWritten, exitCode>>
    /\ UNCHANGED scoreVars

\* Line 288 (create_dnsmos_wrapper, lines 105-231), and lines 290-294.
CreateWrapper ==
    /\ ipc = "wrapper"
    /\ wrapperWritten' = TRUE
    /\ log' = log \o <<<<"SUCCESS", "DNSMOS wrapper created">>>> \o CompletedLines
    /\ ipc' = "test"
    /\ UNCHANGED <<args, host, installs, exitCode>>
    /\ UNCHANGED scoreVars

\* Lines 295-304: the import test; an ImportError is reported, not raised.
TestInstallation ==
    /\ ipc = "test"
    /\ \E importsOk \in BOOLEAN :
         log' = log \o (IF importsOk
                        THEN <<<<"SUCCESS", "All core packages imported successfully">>>>
                        ELSE <<<<"WARNING", "Import test failed">>,
                               <<"WARNING", "Some packages may not be properly installed">>>>)
    /\ ipc' = "done"
    /\ exitCode' = <<0>>
    /\ UNCHANGED <<args, host, installs, wrapperWritten>>
    /\ UNCHANGED scoreVars

(***************************************************************************)
(* Specifications                                                          *)
(***************************************************************************)
Init == ScoreInit /\ InstallInit

\* The host process that scores audio.
Next ==
    \/ ImportPackage
    \/ CallPackage
    \/ ImportGenerated
    \/ CallGenerated

Spec == Init /\ [][Next]_vars

\* One run of the installer.
InstallNext ==
    \/ Launch
    \/ CheckVersion
    \/ CheckManager
    \/ InstallCore
    \/ InstallMetrics
    \/ CheckSubmodule
    \/ CreateWrapper
    \/ TestInstallation

InstallSpec == Init /\ [][InstallNext]_vars

(***************************************************************************)
(* Properties                                                              *)
(***************************************************************************)
Has(seq, x) == \E i \in DOMAIN seq : seq[i] = x

IndexOf(seq, x) == CHOOSE i \in DOMAIN seq : seq[i] = x

PackageCall == module = "pkg" /\ last.op = "call"

\* The last call got a temporary file from NamedTemporaryFile.
CreatedTmp == Has(last.res.ops, "tmpfile") /\ last.res.raisedAt # "tmpfile"

\* C1: after a scoring call that created a temporary .wav file has returned,
\* that file is no longer on disk, whether the scorer returned or the write
\* or the scorer raised.
C1_TmpFileRemoved ==
    (PackageCall /\ CreatedTmp) => tmpMade \notin tmpFiles

C4_ConstructedAtMostOnce ==
    /\ built <= 1
    /\ Cardinality(used) <= 1
    /\ used # {} => used = {instance}

\* C4 witness: two calls have invoked the one scorer.
C4_Witness ==
    /\ calls >= 2
    /\ built = 1
    /\ used = {instance}
    /\ last.op = "call"
    /\ last.res.raisedAt = ""

\* C5: a scoring call of the packaged wrapper never lets an exception out:
\* whatever raised (decode, resample, temporary file, write, scorer, field
\* extraction), the call returns None.
C5_FailuresBecomeNone ==
    PackageCall =>
        /\ last.res.outcome \in {"return", "None"}
        /\ last.res.raisedAt # "" => last.res.outcome = "None"
        /\ last.res.outcome = "None" => last.res.value = << >>

\* C5 witness: the scorer raised and the call returned None.
C5_Witness ==
    /\ PackageCall
    /\ last.res.raisedAt = "score"
    /\ last.res.outcome = "None"

\* The rate the call takes the input to run at.
EffectiveRate(input) ==
    IF input.kind = "path" THEN input.fileRate ELSE input.sample_rate

\* C9 (inputs are 1-D arrays, 2-D arrays of shape (frames, channels), or
\* files): what the scorer is handed is single-channel and at 16000 Hz; the
\* channels are averaged exactly when the input has more than one dimension,
\* resampling runs exactly when the effective rate is not 16000 and after the
\* averaging, and the scorer is invoked with rate 16000.
C9_HandedMonoAt16k ==
    (PackageCall /\ last.res.handed # << >>) =>
        LET h == last.res.handed[1]
            ops == last.res.ops
        IN /\ h.written.ndim = 1
           /\ h.written.channels = 1
           /\ h.written.rate = 16000
           /\ h.samplerate = 16000
           /\ h.rate = 16000
           /\ Has(ops, "mean") <=> last.input.ndim > 1
           /\ Has(ops, "resample") <=> EffectiveRate(last.input) # 16000
           /\ (Has(ops, "mean") /\ Has(ops, "resample"))
                 => IndexOf(ops, "mean") < IndexOf(ops, "resample")
           /\ Has(ops, "resample") => IndexOf(ops, "resample") < IndexOf(ops, "write")

\* C9 witness: a stereo 48 kHz file was averaged, resampled and handed over.
C9_Witness ==
    /\ PackageCall
    /\ last.res.handed # << >>
    /\ last.input.kind = "path"
    /\ last.input.channels = 2
    /\ last.input.fileRate = 48000
    /\ last.res.handed[1].written.frames = 1

\* C10: when the scorer returns a mapping that has SIG, BAK and OVRL, the
\* call returns exactly those three fields, each with the scorer's value as a
\* float, and nothing else of the mapping.
C10_ScoresPassedThrough ==
    (PackageCall /\ last.res.got # << >> /\ ScoreKeys \subseteq DOMAIN last.res.got[1]) =>
        /\ last.res.outcome = "return"
        /\ DOMAIN last.res.value = {"SIG", "BAK", "OVRL"}
        /\ \A k \in {"SIG", "BAK", "OVRL"} :
              /\ last.res.value[k].val = last.res.got[1][k].val
              /\ last.res.value[k].type = "float"

\* C10 witness: the scorer returned 3.5, 4.0, 3.8 among other fields.
C10_Witness ==
    /\ PackageCall
    /\ last.res.got # << >>
    /\ DOMAIN last.res.got[1] = AllKeys
    /\ last.res.outcome = "return"
    /\ last.res.value["SIG"].val = 35
    /\ last.res.value["BAK"].val = 40
    /\ last.res.value["OVRL"].val = 38

\* The manager the mode flag selects is absent on the host.
ManagerAbsent == IF args.conda THEN ~host.conda ELSE ~host.pip

\* C6: when the selected package manager is absent the installer exits with
\* status 1, having made no install_package call and written no wrapper file.
C6_AbsentManagerExitsFirst ==
    (ipc # "idle" /\ ManagerAbsent) =>
        /\ installs = << >>
        /\ ~wrapperWritten
        /\ ipc \in {"version", "manager", "exited"}
        /\ ipc = "exited" => exitCode = <<1>>
        /\ ipc # "exited" => ENABLED InstallNext

\* C6 witness: --conda on a host with pip but no conda has exited.
C6_Witness ==
    /\ ipc = "exited"
    /\ args.conda
    /\ ~host.conda
    /\ host.pip
    /\ check_python_version(host.version)
    /\ Has(log, <<"ERROR", "Conda not found">>)

AllPackages ==
    <<"numpy", "scipy", "librosa", "soundfile", "pandas", "tqdm",
      "pypesq", "onnxruntime">>

\* C7: past the checks, the packages are attempted once each in the fixed
\* order whatever each attempt's result; no failure ends the run or is
\* retried, and the run ends with status 0.
C7_EveryPackageOnceInOrder ==
    /\ Len(installs) <= Len(AllPackages)
    /\ \A i \in DOMAIN installs : installs[i].package = AllPackages[i]
    /\ ipc \in {"core", "metrics"} => (Len(installs) < Len(AllPackages) /\ exitCode = << >>)
    /\ ipc \in {"submodule", "wrapper", "test", "done"} => Len(installs) = Len(AllPackages)
    /\ ipc = "exited" => installs = << >>
    /\ ipc = "done" => exitCode = <<0>>
    /\ ipc \in {"core", "metrics", "submodule", "wrapper", "test"} => ENABLED InstallNext

\* C7 witness: a finished run whose installs failed and succeeded in turn.
C7_Witness ==
    /\ ipc = "done"
    /\ exitCode = <<0>>
    /\ Len(installs) = 8
    /\ ~installs[1].ok
    /\ installs[2].ok
    /\ ~installs[7].ok
    /\ ~installs[8].ok

SubmoduleReady == host.dir /\ host.git

\* C8: the wrapper file is written exactly when the submodule directory
\* exists and holds a .git entry; otherwise nothing is written, the condition
\* is reported, and the run goes on to end with status 0.
C8_WrapperIffSubmodule ==
    /\ wrapperWritten => SubmoduleReady
    /\ ipc \in {"test", "done"} => (wrapperWritten <=> SubmoduleReady)
    /\ (ipc \in {"test", "done"} /\ ~host.dir)
          => Has(log, <<"ERROR", "DNSMOS submodule not found">>)
    /\ (ipc \in {"test", "done"} /\ host.dir /\ ~host.git)
          => Has(log, <<"WARNING", "DNSMOS directory exists but is not a git submodule">>)
    /\ (ipc = "test" /\ ~SubmoduleReady) => ENABLED TestInstallation
    /\ (ipc = "done" /\ ~SubmoduleReady) => exitCode = <<0>>

\* C8 witness: a directory without .git: nothing written, run ended with 0.
C8_Witness ==
    /\ ipc = "done"
    /\ host.dir
    /\ ~host.git
    /\ ~wrapperWritten
    /\ exitCode = <<0>>

====
